---- MODULE Spec2Model ----
\* Model of src/app.py: a Streamlit script that extracts coordinates from a Google
\* Maps URL, fetches nearby restaurants (paginated) and classifies them one by one
\* with a chat model.  The session state (st.session_state) survives between
\* button clicks; every click re-runs the script with exactly one button pressed.
EXTENDS Integers, Sequences, FiniteSets, TLC

VARIABLES
    coords,        \* st.session_state["coords"]
    restaurants,   \* st.session_state["restaurants"]
    classified,    \* st.session_state["classified"]
    index,         \* st.session_state["index"]
    MAPS_KEY,      \* whether GOOGLE_MAPS_KEY is a usable key (read at line 18)
    OPENAI_KEY,    \* whether OPENAI_API_KEY is non-empty (read at line 19)
    start_result,  \* history: outcome of the most recent Start click
    last,          \* history: what the most recent click did (message, upstream calls)
    args,          \* function-level runs: the inputs of the function under study
    ret            \* function-level runs: <<>> before the call, <<result>> after

vars == <<coords, restaurants, classified, index, MAPS_KEY, OPENAI_KEY,
          start_result, last, args, ret>>

session == <<coords, restaurants, classified, index, MAPS_KEY, OPENAI_KEY,
             start_result, last>>

\* ---------------------------------------------------------------- bounds

MaxUrlLen == 2        \* tokens in a URL
MaxReplyLen == 2      \* tokens in a model reply
MaxN == 5             \* result pages the places provider holds for one search
MaxRestaurants == 3   \* rows of a fetched list kept in the session runs

\* ---------------------------------------------------------------- helpers

Min(a, b) == IF a <= b THEN a ELSE b

SeqsUpTo(S, n) == UNION {[1..k -> S] : k \in 0..n}

RECURSIVE Concat(_)
Concat(ss) == IF ss = <<>> THEN <<>> ELSE Head(ss) \o Concat(Tail(ss))

\* str.strip(): drop the leading and trailing whitespace tokens
RECURSIVE lstrip(_, _)
lstrip(s, ws) ==
    IF s # <<>> /\ Head(s) = ws THEN lstrip(Tail(s), ws) ELSE s

RECURSIVE rstrip(_, _)
rstrip(s, ws) ==
    IF s # <<>> /\ s[Len(s)] = ws THEN rstrip(SubSeq(s, 1, Len(s) - 1), ws) ELSE s

strip(s, ws) == rstrip(lstrip(s, ws), ws)

\* ------------------------------------------------- URLs (lines 47-77)
\* A decimal number as written in a URL: "<sign><mag>.0".
NumTexts ==
    { [sign |-> "+", mag |-> 20],
      [sign |-> "-", mag |-> 100],
      [sign |-> "",  mag |-> 200] }

\* float(m.group(i))
float(t) == IF t.sign = "-" THEN 0 - t.mag ELSE t.mag

\* A URL is a sequence of tokens; no regular expression matches across tokens.
\*   at    "@<lat>,<lng>"          bang  "!3d<lat>!4d<lng>"
\*   pair  "<lat>,<lng>"           short "goo.gl"
\*   ws    " "                     (kinds short and ws carry dummy numbers)
Zero == [sign |-> "", mag |-> 0]
Marker(k, a, b) == [k |-> k, lat |-> a, lng |-> b]
WsTok == Marker("ws", Zero, Zero)
ShortTok == Marker("short", Zero, Zero)

UrlTokens ==
    {Marker(k, a, b) : k \in {"at", "bang", "pair"}, a \in NumTexts, b \in NumTexts}
        \cup {WsTok, ShortTok}

\* What one redirect-following GET can answer: failure, or the final URL.
Redirects ==
    {[ok |-> FALSE, url |-> <<>>]}
        \cup {[ok |-> TRUE, url |-> <<t>>] : t \in UrlTokens}
        \cup {[ok |-> TRUE, url |-> <<Marker("bang", a, b), Marker("at", b, a)>>] :
                a \in NumTexts, b \in NumTexts}

\* lines 47-52
expand_short_url_once(url, net) == IF net.ok THEN net.url ELSE url

\* re.search: position of the leftmost token one of whose kinds matches, 0 if none
RECURSIVE search_from(_, _, _)
search_from(kinds, u, i) ==
    IF i > Len(u) THEN 0
    ELSE IF u[i].k \in kinds THEN i
    ELSE search_from(kinds, u, i + 1)

search(kinds, u) == search_from(kinds, u, 1)

NotFound == [found |-> FALSE, lat |-> 0, lng |-> 0]
Found(tok) == [found |-> TRUE, lat |-> float(tok.lat), lng |-> float(tok.lng)]

\* lines 71-77: the generic pair pattern also matches inside an "@lat,lng" marker;
\* only the leftmost match is range-checked.
fallback_pair(u) ==
    LET m == search({"at", "pair"}, u) IN
    IF m # 0 /\ -90 <= float(u[m].lat) /\ float(u[m].lat) <= 90
             /\ -180 <= float(u[m].lng) /\ float(u[m].lng) <= 180
    THEN Found(u[m])
    ELSE NotFound

\* faulty variant: the !3d..!4d pattern is tried with the latitude and longitude groups swapped
extract_coordinates_swapped(url, net) ==
    IF url = <<>> THEN NotFound
    ELSE LET s == strip(url, WsTok)
             u == IF search({"short"}, s) # 0 THEN expand_short_url_once(s, net) ELSE s
             m1 == search({"at"}, u)
             m2 == search({"bang"}, u)
         IN  IF m1 # 0 THEN Found(u[m1])
             ELSE IF m2 # 0 THEN Found(Marker("bang", u[m2].lng, u[m2].lat))
             ELSE fallback_pair(u)

\* lines 54-77 (the elapsed time, third component of the result, is not modelled)
extract_coordinates(url, net) ==
    IF url = <<>> THEN NotFound
    ELSE LET s == strip(url, WsTok)
             u == IF search({"short"}, s) # 0 THEN expand_short_url_once(s, net) ELSE s
             m1 == search({"at"}, u)
             m2 == search({"bang"}, u)
         IN  IF m1 # 0 THEN Found(u[m1])
             ELSE IF m2 # 0 THEN Found(u[m2])
             ELSE fallback_pair(u)

\* ------------------------------------------------- places (lines 79-102)
\* Raw results of the provider; a page is a list of them.
RawResults ==
    { [name |-> "A", place_id |-> "p1"], [name |-> "B", place_id |-> "p2"] }

PageContents ==
    { <<>>,
      <<[name |-> "A", place_id |-> "p1"]>>,
      <<[name |-> "B", place_id |-> "p2"], [name |-> "A", place_id |-> "p1"]>> }

\* The provider's answer to one search: N pages, a next_page_token on each page but
\* the last, and possibly one call that fails (failAt = k: the k-th call raises).
Providers ==
    {[pages |-> ps, failAt |-> f] :
        ps \in (SeqsUpTo(PageContents, MaxN) \ {<<>>}), f \in 0..MaxN}

\* lines 93-101: one row per raw result; vicinity, rating and types are copied like name
row_of(r) ==
    [name |-> r.name, place_id |-> r.place_id,
     map_url |-> <<"https://www.google.com/maps/place/?q=place_id:", r.place_id>>]

rows_of(all_results) == [i \in 1..Len(all_results) |-> row_of(all_results[i])]

Raised(events) == [raised |-> TRUE, rows |-> <<>>, events |-> events]

\* faulty variant: the page budget is compared with <= (one continuation call too many)
RECURSIVE fetch_loop_le(_, _, _, _, _, _)
fetch_loop_le(prov, max_pages, pages, cur, all_results, events) ==
    IF cur < Len(prov.pages) /\ pages <= max_pages
    THEN IF prov.failAt = cur + 1
         THEN Raised(events \o <<"sleep", "page_token_call_failed">>)
         ELSE fetch_loop_le(prov, max_pages, pages + 1, cur + 1,
                            all_results \o prov.pages[cur + 1],
                            events \o <<"sleep", "page_token_call">>)
    ELSE [raised |-> FALSE, rows |-> rows_of(all_results), events |-> events]

\* faulty variant: a failed continuation call ends the loop and the pages so far are returned
RECURSIVE fetch_loop_swallow(_, _, _, _, _, _)
fetch_loop_swallow(prov, max_pages, pages, cur, all_results, events) ==
    IF cur < Len(prov.pages) /\ pages < max_pages
    THEN IF prov.failAt = cur + 1
         THEN [raised |-> FALSE, rows |-> rows_of(all_results),
               events |-> events \o <<"sleep", "page_token_call_failed">>]
         ELSE fetch_loop_swallow(prov, max_pages, pages + 1, cur + 1,
                                 all_results \o prov.pages[cur + 1],
                                 events \o <<"sleep", "page_token_call">>)
    ELSE [raised |-> FALSE, rows |-> rows_of(all_results), events |-> events]

\* lines 86-91: `cur` is the page held in `places`, `pages` the loop counter
RECURSIVE fetch_loop(_, _, _, _, _, _)
fetch_loop(prov, max_pages, pages, cur, all_results, events) ==
    IF cur < Len(prov.pages) /\ pages < max_pages
    THEN IF prov.failAt = cur + 1
         THEN Raised(events \o <<"sleep", "page_token_call_failed">>)
         ELSE fetch_loop(prov, max_pages, pages + 1, cur + 1,
                         all_results \o prov.pages[cur + 1],
                         events \o <<"sleep", "page_token_call">>)
    ELSE [raised |-> FALSE, rows |-> rows_of(all_results), events |-> events]

\* lines 79-102; googlemaps.Client(key=...) raises ValueError on an unusable key
fetch_restaurants_places(maps_key, prov, max_pages) ==
    IF ~maps_key THEN Raised(<<>>)
    ELSE IF prov.failAt = 1 THEN Raised(<<"location_call_failed">>)
    ELSE fetch_loop(prov, max_pages, 0, 1, prov.pages[1], <<"location_call">>)

\* ------------------------------------------------- classifier (lines 105-166)
\* The Arabic labels are written in Latin letters: hindiya = Indian, shawarma,
\* lubnaniya = Lebanese, khalijiya = Gulf, asmak = Seafood, burger, ukhra = Other.
CATEGORIES_AR ==
    << "mataem hindiya", "mataem shawarma", "mataem lubnaniya", "mataem khalijiya",
       "mataem asmak", "mataem burger", "ukhra" >>

Taxonomy == {CATEGORIES_AR[i] : i \in 1..Len(CATEGORIES_AR)}

KEY_MISSING == "X OpenAI API key missing"
ErrorLabel(e) == "X Error: " \o e
Sentinels == {KEY_MISSING, ErrorLabel("provider"), ErrorLabel("content")}

\* A reply is a sequence of words; a Latin word is written in lower or upper case.
\* The Arabic needles of lines 151-161 are written ar_hindi, ar_shawarma, ar_lubnani,
\* ar_khalij, ar_samak, ar_burger.
LatinWords ==
    {"indian", "shawarma", "lebanese", "gulf", "khaleeji", "fish", "seafood",
     "burger", "unsure"}

ArabicWords ==
    {"ar_hindi", "ar_shawarma", "ar_lubnani", "ar_khalij", "ar_samak", "ar_burger"}
        \cup Taxonomy

Word(w, up) == [w |-> w, up |-> up]
Space == Word(" ", FALSE)

ReplyTokens ==
    {Word(w, up) : w \in LatinWords, up \in BOOLEAN}
        \cup {Word(w, FALSE) : w \in ArabicWords}
        \cup {Space}

\* the needles of lines 151-161 that occur inside a lower-case word
Parts(w) ==
    CASE w = "mataem hindiya"   -> {"ar_hindi"}
      [] w = "mataem shawarma"  -> {"ar_shawarma"}
      [] w = "mataem lubnaniya" -> {"ar_lubnani"}
      [] w = "mataem khalijiya" -> {"ar_khalij"}
      [] w = "mataem burger"    -> {"ar_burger"}
      [] w \in {"mataem asmak", "ukhra", "unsure", " "} -> {}
      [] OTHER -> {w}

\* str.lower()
lower(text) == [i \in 1..Len(text) |-> Word(text[i].w, FALSE)]

\* `needle in low`: the comparison is case-sensitive
contains(low, needle) ==
    \E i \in 1..Len(low) : ~low[i].up /\ needle \in Parts(low[i].w)

\* faulty variant: the synonym table is searched in the reply as received, not in low
synonym_label_nolower(text) ==
    IF contains(text, "indian") \/ contains(text, "ar_hindi") THEN CATEGORIES_AR[1]
    ELSE IF contains(text, "shawarma") \/ contains(text, "ar_shawarma") THEN CATEGORIES_AR[2]
    ELSE IF contains(text, "lebanese") \/ contains(text, "ar_lubnani") THEN CATEGORIES_AR[3]
    ELSE IF contains(text, "gulf") \/ contains(text, "khaleeji")
            \/ contains(text, "ar_khalij") THEN CATEGORIES_AR[4]
    ELSE IF contains(text, "fish") \/ contains(text, "seafood")
            \/ contains(text, "ar_samak") THEN CATEGORIES_AR[5]
    ELSE IF contains(text, "burger") \/ contains(text, "ar_burger") THEN CATEGORIES_AR[6]
    ELSE CATEGORIES_AR[7]

\* lines 149-164
synonym_label(text) ==
    LET low == lower(text) IN
    IF contains(low, "indian") \/ contains(low, "ar_hindi") THEN CATEGORIES_AR[1]
    ELSE IF contains(low, "shawarma") \/ contains(low, "ar_shawarma") THEN CATEGORIES_AR[2]
    ELSE IF contains(low, "lebanese") \/ contains(low, "ar_lubnani") THEN CATEGORIES_AR[3]
    ELSE IF contains(low, "gulf") \/ contains(low, "khaleeji")
            \/ contains(low, "ar_khalij") THEN CATEGORIES_AR[4]
    ELSE IF contains(low, "fish") \/ contains(low, "seafood")
            \/ contains(low, "ar_samak") THEN CATEGORIES_AR[5]
    ELSE IF contains(low, "burger") \/ contains(low, "ar_burger") THEN CATEGORIES_AR[6]
    ELSE CATEGORIES_AR[7]

\* lines 145-164: an exact taxonomy string wins, then the synonym table
normalize(text) ==
    IF \E i \in 1..Len(CATEGORIES_AR) : text = <<Word(CATEGORIES_AR[i], FALSE)>>
    THEN text[1].w
    ELSE synonym_label(text)

\* What openai.ChatCompletion.create can do (line 133): raise; answer without
\* choices; answer whose first choice has no message or a content that is not a
\* string; answer with a text.  elapsed is time.time()-t0 in milliseconds.
Elapsed == {0, 14}
NoText == <<>>

\* round(elapsed, 2), in hundredths of a second
round2(ms) == (ms + 5) \div 10

Returned(label, latency, calls) ==
    [raised |-> FALSE, label |-> label, latency |-> latency, calls |-> calls]

\* lines 132-164, the body of the try: exc is the exception it ends with, "" if none
try_body(resp) ==
    IF resp.kind = "raise" THEN [exc |-> "provider", label |-> "", latency |-> <<>>]
    ELSE IF resp.kind = "badcontent" THEN [exc |-> "content", label |-> "", latency |-> <<>>]
    ELSE LET text == IF resp.kind = "nochoices" THEN NoText ELSE strip(resp.text, Space)
         IN  [exc |-> "", label |-> normalize(text), latency |-> <<round2(resp.elapsed)>>]

\* faulty variant: only the model call is inside the try, the parsing of the reply is not
classify_with_chatgpt_narrow_try(openai_key, resp) ==
    IF ~openai_key THEN Returned(KEY_MISSING, <<>>, 0)
    ELSE LET t == try_body(resp) IN
         IF t.exc = "provider" THEN Returned(ErrorLabel(t.exc), <<>>, 1)
         ELSE IF t.exc # ""
              THEN [raised |-> TRUE, label |-> "", latency |-> <<>>, calls |-> 1]
              ELSE Returned(t.label, t.latency, 1)

\* lines 115-166; a latency of None is written <<>>, a number t is written <<t>>
classify_with_chatgpt(openai_key, resp) ==
    IF ~openai_key THEN Returned(KEY_MISSING, <<>>, 0)
    ELSE LET t == try_body(resp) IN
         IF t.exc # "" THEN Returned(ErrorLabel(t.exc), <<>>, 1)
         ELSE Returned(t.label, t.latency, 1)

\* ------------------------------------------------- session and UI (lines 168-249)
None == [loaded |-> FALSE, rows |-> <<>>]
DataFrame(rows) == [loaded |-> TRUE, rows |-> rows]

\* len(st.session_state["restaurants"]), 0 when nothing is loaded (line 230)
NumRestaurants == Len(restaurants.rows)

Click(act, msg, events, rows, calls) ==
    [act |-> act, msg |-> msg, events |-> events, rows |-> rows, calls |-> calls]

\* inputs of the clicks
SessionUrls ==
    { <<>>,
      <<WsTok>>,
      <<Marker("at", [sign |-> "+", mag |-> 20], [sign |-> "-", mag |-> 100])>>,
      <<Marker("bang", [sign |-> "-", mag |-> 100], [sign |-> "+", mag |-> 20])>>,
      <<Marker("pair", [sign |-> "", mag |-> 200], [sign |-> "", mag |-> 200])>>,
      <<ShortTok>> }

SessionRedirects ==
    { [ok |-> FALSE, url |-> <<>>],
      [ok |-> TRUE, url |-> <<Marker("pair", [sign |-> "+", mag |-> 20],
                                             [sign |-> "+", mag |-> 20])>>] }

SessionProviders == {p \in Providers : Len(Concat(p.pages)) <= MaxRestaurants}

SessionResponses ==
    { [kind |-> "raise", text |-> NoText, elapsed |-> 0],
      [kind |-> "text", text |-> <<Word("seafood", TRUE)>>, elapsed |-> 14],
      [kind |-> "text", text |-> <<Word("mataem burger", FALSE), Space>>, elapsed |-> 0] }

\* max_pages=3, the default the Fetch handler uses (line 79)
DEFAULT_MAX_PAGES == 3

\* what fetch_restaurants_places can return or raise at line 195, by usable key
FetchOutcomes ==
    [k \in BOOLEAN |->
        {fetch_restaurants_places(k, p, DEFAULT_MAX_PAGES) : p \in SessionProviders}]

\* lines 180-186
Start ==
    /\ \E url \in SessionUrls, net \in SessionRedirects :
         LET r == extract_coordinates(url, net) IN
         IF ~r.found
         THEN /\ coords' = coords
              /\ start_result' = "notfound"
              /\ last' = Click("start", "error", <<>>, <<>>, <<>>)
         ELSE /\ coords' = r
              /\ start_result' = "found"
              /\ last' = Click("start", "success", <<>>, <<>>, <<>>)
    /\ UNCHANGED <<restaurants, classified, index, MAPS_KEY, OPENAI_KEY, args, ret>>

\* faulty variant: the result is stored without the df.empty test of line 196
on_fetch_no_empty_test(out, rs, cls, idx) ==
    IF out.raised
    THEN [restaurants |-> rs, classified |-> cls, index |-> idx, msg |-> "error"]
    ELSE [restaurants |-> DataFrame(out.rows), classified |-> <<>>, index |-> 0,
          msg |-> "success"]

\* faulty variant: line 201 is missing, the cursor is not reset
on_fetch_no_reset(out, rs, cls, idx) ==
    IF out.raised
    THEN [restaurants |-> rs, classified |-> cls, index |-> idx, msg |-> "error"]
    ELSE IF out.rows = <<>>
    THEN [restaurants |-> rs, classified |-> cls, index |-> idx, msg |-> "warning"]
    ELSE [restaurants |-> DataFrame(out.rows), classified |-> <<>>, index |-> idx,
          msg |-> "success"]

\* lines 194-205: what the handler does with the outcome of line 195
on_fetch(out, rs, cls, idx) ==
    IF out.raised
    THEN [restaurants |-> rs, classified |-> cls, index |-> idx, msg |-> "error"]
    ELSE IF out.rows = <<>>
    THEN [restaurants |-> rs, classified |-> cls, index |-> idx, msg |-> "warning"]
    ELSE [restaurants |-> DataFrame(out.rows), classified |-> <<>>, index |-> 0,
          msg |-> "success"]

\* lines 189-205
Fetch ==
    /\ IF ~coords.found
       THEN /\ last' = Click("fetch", "error_no_coordinates", <<>>, <<>>, <<>>)
            /\ UNCHANGED <<restaurants, classified, index>>
       ELSE \E out \in FetchOutcomes[MAPS_KEY] :
              LET h == on_fetch(out, restaurants, classified, index) IN
              /\ restaurants' = h.restaurants
              /\ classified' = h.classified
              /\ index' = h.index
              /\ last' = Click("fetch", h.msg, out.events, out.rows, <<>>)
    /\ UNCHANGED <<coords, start_result, MAPS_KEY, OPENAI_KEY, args, ret>>

\* faulty variant: a row whose classification failed is not recorded and the cursor stays
classify_one_skip_errors(rows, cls, idx, i, key, resp) ==
    LET row == rows[i + 1]
        r == classify_with_chatgpt(key, resp)
        call == [i |-> i, name |-> row.name, label |-> r.label, latency |-> r.latency]
    IN  IF r.label \in Sentinels
        THEN [classified |-> cls, index |-> idx, call |-> call]
        ELSE [classified |->
                 Append(cls, [name |-> row.name, category |-> r.label,
                              map_url |-> row.map_url, time_s |-> r.latency]),
              index |-> idx + 1, call |-> call]

\* lines 218-227 and 238-243: classify row i, append the result, advance the cursor
\* (the address column is copied like name)
classify_one(rows, cls, idx, i, key, resp) ==
    LET row == rows[i + 1]
        r == classify_with_chatgpt(key, resp)
    IN  [classified |->
            Append(cls, [name |-> row.name, category |-> r.label,
                         map_url |-> row.map_url, time_s |-> r.latency]),
         index |-> idx + 1,
         call |-> [i |-> i, name |-> row.name, label |-> r.label, latency |-> r.latency]]

\* lines 210-228
ClassifyNext ==
    /\ IF ~restaurants.loaded
       THEN /\ last' = Click("next", "error", <<>>, <<>>, <<>>)
            /\ UNCHANGED <<classified, index>>
       ELSE IF index >= Len(restaurants.rows)
       THEN /\ last' = Click("next", "all_classified", <<>>, <<>>, <<>>)
            /\ UNCHANGED <<classified, index>>
       ELSE \E resp \in SessionResponses :
              LET s == classify_one(restaurants.rows, classified, index, index,
                                    OPENAI_KEY, resp) IN
              /\ classified' = s.classified
              /\ index' = s.index
              /\ last' = Click("next", "success", <<>>, <<>>, <<s.call>>)
    /\ UNCHANGED <<coords, restaurants, start_result, MAPS_KEY, OPENAI_KEY, args, ret>>

\* faulty variant: the loop runs over range(len(...)), from the first row
range_start_zero(idx) == 0

\* line 237: the first value of range(index, len(...))
range_start(idx) == idx

\* lines 237-244: the loop, i the loop variable, resps the model's answer for each row
RECURSIVE classify_all_loop(_, _, _, _, _, _, _)
classify_all_loop(rows, cls, idx, i, key, resps, calls) ==
    IF i >= Len(rows)
    THEN [classified |-> cls, index |-> idx, calls |-> calls]
    ELSE LET s == classify_one(rows, cls, idx, i, key, resps[i]) IN
         classify_all_loop(rows, s.classified, s.index, i + 1, key, resps,
                           Append(calls, s.call))

\* lines 233-244
ClassifyAll ==
    /\ IF ~restaurants.loaded
       THEN /\ last' = Click("all", "error", <<>>, <<>>, <<>>)
            /\ UNCHANGED <<classified, index>>
       ELSE \E resps \in [range_start(index)..(Len(restaurants.rows) - 1)
                             -> SessionResponses] :
              LET s == classify_all_loop(restaurants.rows, classified, index,
                                         range_start(index), OPENAI_KEY, resps, <<>>) IN
              /\ classified' = s.classified
              /\ index' = s.index
              /\ last' = Click("all", "done", <<>>, <<>>, s.calls)
    /\ UNCHANGED <<coords, restaurants, start_result, MAPS_KEY, OPENAI_KEY, args, ret>>

\* lines 168-175; the keys are read from the environment at every run
Init ==
    /\ coords = NotFound
    /\ restaurants = None
    /\ classified = <<>>
    /\ index = 0
    /\ MAPS_KEY \in BOOLEAN
    /\ OPENAI_KEY \in BOOLEAN
    /\ start_result = "none"
    /\ last = Click("init", "", <<>>, <<>>, <<>>)
    /\ args = <<>>
    /\ ret = <<>>

Next == Start \/ Fetch \/ ClassifyNext \/ ClassifyAll

Spec == Init /\ [][Next]_vars

\* ---------------------------------------------------------------- session claims

\* C1: between clicks, len(classified) = index and 0 <= index <= len(restaurants),
\* the length taken as 0 while no list is loaded.
C1_CursorInvariant ==
    /\ Len(classified) = index
    /\ 0 <= index
    /\ index <= NumRestaurants

\* reached: two of three loaded candidates are classified
C1_Witness ==
    /\ last.act = "next"
    /\ NumRestaurants = 3
    /\ index = 2
    /\ Len(classified) = 2

\* C2: when the most recent Start found no coordinate, a Fetch click makes no places
\* call and does not replace the restaurant list.
C2_NoFetchAfterFailedStart ==
    (start_result = "notfound" /\ last.act = "fetch")
        => (last.events = <<>> /\ last.msg # "success")

FailedCall(events) ==
    \E i \in 1..Len(events) :
        events[i] \in {"location_call_failed", "page_token_call_failed"}

\* C3: in a Classify Next or Classify All click in which the classifier returned an
\* error sentinel, every call appended exactly one row (the sentinel as category of
\* the failed candidate's row), the cursor advanced by one per call, and the call
\* after a failed one targeted the next candidate.
C3_ErrorRowAdvances ==
    [][ (/\ last'.act \in {"next", "all"}
         /\ \E j \in 1..Len(last'.calls) : last'.calls[j].label \in Sentinels)
            => /\ index' = index + Len(last'.calls)
               /\ Len(classified') = Len(classified) + Len(last'.calls)
               /\ SubSeq(classified', 1, Len(classified)) = classified
               /\ \A j \in 1..Len(last'.calls) :
                    /\ last'.calls[j].i = index + j - 1
                    /\ classified'[Len(classified) + j].category = last'.calls[j].label
                    /\ classified'[Len(classified) + j].name
                         = restaurants.rows[index + j].name
                    /\ (classified'[Len(classified) + j].time_s = <<>>)
                         <=> (last'.calls[j].label \in Sentinels) ]_vars

\* reached: Classify All recorded a failed row and then classified the next candidate
C3_Witness ==
    /\ last.act = "all"
    /\ Len(last.calls) >= 2
    /\ last.calls[1].label = ErrorLabel("provider")
    /\ last.calls[2].label = CATEGORIES_AR[5]
    /\ classified[index - 1].category = ErrorLabel("provider")

\* C5: a Fetch click in which a places call failed (the first or a continuation
\* call) shows an error, lets no exception escape, and leaves restaurants,
\* classified and index as they were.
C5_FetchErrorLeavesSession ==
    [][ (last'.act = "fetch" /\ FailedCall(last'.events))
            => /\ last'.msg = "error"
               /\ last'.rows = <<>>
               /\ UNCHANGED <<restaurants, classified, index>> ]_vars

\* reached: a continuation call failed while an earlier list, partly classified, is loaded
C5_Witness ==
    /\ last.act = "fetch"
    /\ last.events = <<"location_call", "sleep", "page_token_call_failed">>
    /\ last.msg = "error"
    /\ restaurants.loaded
    /\ index = 1

\* C7: a Classify All click on K loaded candidates with cursor i <= K ends with
\* index = K and len(classified) = K after one classifier call per candidate
\* i..K-1, in list order; a Classify Next click at index = K calls nothing and
\* changes neither the cursor nor the log.
C7_ClassifyAllCompletes ==
    [][ /\ (last'.act = "all" /\ restaurants.loaded /\ index <= NumRestaurants)
            => /\ index' = NumRestaurants
               /\ Len(classified') = NumRestaurants
               /\ Len(last'.calls) = NumRestaurants - index
               /\ \A j \in 1..Len(last'.calls) :
                    /\ last'.calls[j].i = index + j - 1
                    /\ last'.calls[j].name = restaurants.rows[index + j].name
        /\ (last'.act = "next" /\ restaurants.loaded /\ index = NumRestaurants)
            => /\ last'.calls = <<>>
               /\ UNCHANGED <<index, classified>> ]_vars

\* reached: Classify All started at cursor 1 of 3 and classified candidates 1 and 2
C7_Witness ==
    /\ last.act = "all"
    /\ NumRestaurants = 3
    /\ Len(last.calls) = 2
    /\ last.calls[1].i = 1
    /\ last.calls[2].i = 2
    /\ index = 3

\* C10: a Fetch that returns a non-empty list stores it, empties the log and resets
\* the cursor; a Fetch that returns an empty list without error changes none of
\* the three; a Start click changes none of the three.
C10_FetchAndStartFrame ==
    [][ /\ (last'.act = "fetch" /\ last'.rows # <<>>)
            => /\ restaurants' = DataFrame(last'.rows)
               /\ classified' = <<>>
               /\ index' = 0
        /\ (/\ last'.act = "fetch"
            /\ last'.events # <<>>
            /\ ~FailedCall(last'.events)
            /\ last'.rows = <<>>)
            => /\ last'.msg = "warning"
               /\ UNCHANGED <<restaurants, classified, index>>
        /\ (last'.act = "start")
            => UNCHANGED <<restaurants, classified, index>> ]_vars

\* reached: an empty fetch left an earlier, partly classified list loaded
C10_Witness ==
    /\ last.act = "fetch"
    /\ last.msg = "warning"
    /\ last.events # <<>>
    /\ restaurants.loaded
    /\ index = 2
    /\ Len(classified) = 2

\* ---------------------------------------------------------------- function-level runs

NoSession ==
    /\ coords = NotFound
    /\ restaurants = None
    /\ classified = <<>>
    /\ index = 0
    /\ MAPS_KEY = TRUE
    /\ OPENAI_KEY = TRUE
    /\ start_result = "none"
    /\ last = Click("init", "", <<>>, <<>>, <<>>)

\* a short link may be answered by any redirect, any other URL makes no request
InitExtract ==
    /\ NoSession
    /\ \E k \in 0..MaxUrlLen : \E u \in [1..k -> UrlTokens] :
         \E n \in (IF search({"short"}, u) # 0
                   THEN Redirects
                   ELSE {[ok |-> FALSE, url |-> <<>>]}) :
            args = [url |-> u, net |-> n]
    /\ ret = <<>>

CallExtract ==
    /\ ret = <<>>
    /\ ret' = <<extract_coordinates(args.url, args.net)>>
    /\ UNCHANGED <<session, args>>

SpecExtract == InitExtract /\ [][CallExtract]_vars

\* C8 as stated: every URL that contains a !3d<lat>!4d<lng> marker resolves to the
\* pair of that (leftmost) marker, also when an @lat,lng marker is present.
C8_Original ==
    (ret # <<>> /\ search({"bang"}, args.url) # 0)
        => ret[1] = Found(args.url[search({"bang"}, args.url)])

\* C8 amended: a URL that contains a !3d<lat>!4d<lng> marker, no @lat,lng marker
\* and no goo.gl short-link host resolves to the pair of the leftmost !3d marker.
C8_BangWithoutAt ==
    (/\ ret # <<>>
     /\ search({"bang"}, args.url) # 0
     /\ search({"at"}, args.url) = 0
     /\ search({"short"}, args.url) = 0)
        => ret[1] = Found(args.url[search({"bang"}, args.url)])

\* reached: a generic pair precedes the !3d marker and the marker's pair is returned
C8_Witness ==
    /\ ret # <<>>
    /\ Len(args.url) = 2
    /\ args.url[1].k = "pair"
    /\ args.url[2].k = "bang"
    /\ args.url[1].lat # args.url[2].lat
    /\ ret[1] = Found(args.url[2])

InitFetch ==
    /\ NoSession
    /\ \E k \in BOOLEAN, n \in 1..MaxN, f \in 0..MaxN, b \in 0..MaxN :
         \E ps \in [1..n -> PageContents] :
            args = [maps_key |-> k, prov |-> [pages |-> ps, failAt |-> f], max_pages |-> b]
    /\ ret = <<>>

CallFetch ==
    /\ ret = <<>>
    /\ ret' = <<fetch_restaurants_places(args.maps_key, args.prov, args.max_pages)>>
    /\ UNCHANGED <<session, args>>

SpecFetch == InitFetch /\ [][CallFetch]_vars

\* the continuation calls a fetch is expected to make: min(max_pages, N-1)
C4_Continuations == Min(args.max_pages, Len(args.prov.pages) - 1)

\* C4: when no provider call fails, a fetch over N pages with budget max_pages makes
\* exactly min(max_pages, N-1) continuation calls (one call in all when max_pages = 0),
\* sleeps exactly once immediately before each continuation call and never otherwise,
\* and returns the rows of the fetched pages concatenated in fetch order.
C4_Pagination ==
    (/\ ret # <<>>
     /\ args.maps_key
     /\ args.prov.failAt \notin 1..(1 + C4_Continuations))
        => LET r == ret[1]
               c == C4_Continuations
               fetched == Concat(SubSeq(args.prov.pages, 1, 1 + c))
           IN  /\ ~r.raised
               /\ Len(r.events) = 1 + 2 * c
               /\ r.events[1] = "location_call"
               /\ \A j \in 1..c :
                    r.events[2 * j] = "sleep" /\ r.events[2 * j + 1] = "page_token_call"
               /\ Cardinality({i \in 1..Len(r.events) : r.events[i] = "sleep"}) = c
               /\ Len(r.rows) = Len(fetched)
               /\ \A i \in 1..Len(fetched) :
                    /\ r.rows[i].name = fetched[i].name
                    /\ r.rows[i].place_id = fetched[i].place_id

\* reached: 4 pages, budget 2: two continuation calls, the third token is left unused
C4_Witness ==
    /\ ret # <<>>
    /\ args.maps_key
    /\ args.prov.failAt = 0
    /\ Len(args.prov.pages) = 4
    /\ args.max_pages = 2
    /\ ret[1].events = <<"location_call", "sleep", "page_token_call", "sleep", "page_token_call">>
    /\ Len(ret[1].rows) = 4

InitClassify ==
    /\ NoSession
    /\ \E k \in BOOLEAN, e \in Elapsed :
         \/ \E kind \in {"raise", "nochoices", "badcontent"} :
              args = [openai_key |-> k,
                      resp |-> [kind |-> kind, text |-> NoText, elapsed |-> e]]
         \/ \E n \in 0..MaxReplyLen : \E t \in [1..n -> ReplyTokens] :
              args = [openai_key |-> k,
                      resp |-> [kind |-> "text", text |-> t, elapsed |-> e]]
    /\ ret = <<>>

CallClassify ==
    /\ ret = <<>>
    /\ ret' = <<classify_with_chatgpt(args.openai_key, args.resp)>>
    /\ UNCHANGED <<session, args>>

SpecClassify == InitClassify /\ [][CallClassify]_vars

\* a model call completed successfully: the key is set and create() returned
C6_CallCompleted == args.openai_key /\ args.resp.kind # "raise"

\* C6 as stated: never raises, the label is a taxonomy member or an error sentinel,
\* and the latency is None exactly when no model call completed successfully.
C6_Original ==
    ret # <<>> =>
        /\ ~ret[1].raised
        /\ ret[1].label \in Taxonomy \cup Sentinels
        /\ (ret[1].latency = <<>>) <=> ~C6_CallCompleted
        /\ \A i \in 1..Len(ret[1].latency) : ret[1].latency[i] >= 0

\* C6 amended: never raises, the label is a taxonomy member or an error sentinel,
\* and the latency is None exactly when the label is an error sentinel, which is
\* when the key is missing, the model call raised, or reading the reply's content
\* raised; otherwise it is a non-negative number.  No call is made without a key.
C6_NeverRaises ==
    ret # <<>> =>
        /\ ~ret[1].raised
        /\ ret[1].label \in Taxonomy \cup Sentinels
        /\ (ret[1].latency = <<>>) <=> (ret[1].label \in Sentinels)
        /\ (ret[1].label \in Sentinels)
             <=> (~args.openai_key \/ args.resp.kind \in {"raise", "badcontent"})
        /\ \A i \in 1..Len(ret[1].latency) : ret[1].latency[i] >= 0
        /\ (~args.openai_key => ret[1].calls = 0)

\* reached: the call returned a reply whose content cannot be read
C6_Witness ==
    /\ ret # <<>>
    /\ args.openai_key
    /\ args.resp.kind = "badcontent"
    /\ ret[1].label = ErrorLabel("content")
    /\ ret[1].latency = <<>>

\* the reply as received contains "seafood" in some letter case
C9_HasSeafood ==
    \E i \in 1..Len(args.resp.text) : args.resp.text[i].w = "seafood"

\* C9 as stated: a text reply that contains "seafood" in any case (and so is no
\* taxonomy string) is labelled Seafood, whatever other synonym it contains.
C9_Original ==
    (ret # <<>> /\ args.openai_key /\ args.resp.kind = "text" /\ C9_HasSeafood)
        => ret[1].label = CATEGORIES_AR[5]

\* the synonyms line 151-158 test before "seafood"
C9_Earlier ==
    {"indian", "ar_hindi", "shawarma", "ar_shawarma", "lebanese", "ar_lubnani",
     "gulf", "khaleeji", "ar_khalij"}

\* C9 amended: a text reply that contains "seafood" in any case and none of the
\* synonyms tested before it (indian, shawarma, lebanese, gulf, khaleeji and their
\* Arabic forms, in any case) is labelled Seafood.
C9_SeafoodFirst ==
    (/\ ret # <<>>
     /\ args.openai_key
     /\ args.resp.kind = "text"
     /\ C9_HasSeafood
     /\ \A i \in 1..Len(args.resp.text) :
            Parts(args.resp.text[i].w) \cap C9_Earlier = {})
        => ret[1].label = CATEGORIES_AR[5]

\* reached: "BURGER SEAFOOD" is labelled Seafood
C9_Witness ==
    /\ ret # <<>>
    /\ args.openai_key
    /\ args.resp.text = <<Word("burger", TRUE), Word("seafood", TRUE)>>
    /\ ret[1].label = CATEGORIES_AR[5]

====
